---- MODULE Spec2Model ----
(***************************************************************************)
(* Model of salty-reviewer: the configuration (internal/config), the       *)
(* review pipeline (internal/reviewer: Reviewer.Review, Analyzer) and the  *)
(* defense pipeline (internal/defender: Defender.Defend).                  *)
(*                                                                         *)
(* One run of the command line tool is modelled: main dispatches to        *)
(* runReview or runDefend, which load the configuration file and then run  *)
(* Review or Defend.  Every call to an external collaborator (GitHub API,  *)
(* chat API) is one step whose outcome is chosen nondeterministically.     *)
(***************************************************************************)
EXTENDS Integers, Sequences, FiniteSets

(* ---------------------------- bounds ----------------------------------- *)
MaxIssues == 2      \* most issues a first-pass response lists
MaxNitpicks == 2    \* most nitpicks a nitpick response lists
MaxComments == 2    \* most review comments GetPRComments returns

(* ---------------------------- inputs ----------------------------------- *)
Users == {"alice"}                 \* names that occur in the reviewer lists
Authors == {"alice", "carol"}      \* PR authors
FileLevels == 0..11                \* nitpicky_level values found in config.yaml
Confidences == {39, 40, 65, 80, 85}     \* "confidence" of a deep analysis
Validities == {50, 94, 95, 100}         \* "confidence_its_valid" of a comment analysis

\* what yaml.Unmarshal can produce from a config.yaml
ConfigFiles ==
    [GitHubToken : {"", "ghp"}, AIApiKey : {"", "sk"}, NitpickyLevel : FileLevels,
     LikedReviewers : SUBSET Users, DislikedReviewers : SUBSET Users]

\* a failed chat request or an unparsable response
NoAnalysis == [ok |-> FALSE, Confidence |-> 0, FinalVerdict |-> ""]

\* the outcomes of Analyzer.DeepAnalyze
DeepResponses ==
    {NoAnalysis}
    \cup [ok : {TRUE}, Confidence : Confidences, FinalVerdict : {"COMMENT"}]
    \cup [ok : {TRUE}, Confidence : {85}, FinalVerdict : {"SKIP"}]

\* a failed chat request or an unparsable response
NoCommentAnalysis == [ok |-> FALSE, ConfidenceValid |-> 0, RecommendedAction |-> ""]

\* the outcomes of Defender.analyzeComment
CommentResponses ==
    {NoCommentAnalysis}
    \cup [ok : {TRUE}, ConfidenceValid : Validities, RecommendedAction : {"DEFEND"}]
    \cup [ok : {TRUE}, ConfidenceValid : {50, 100}, RecommendedAction : {"CONCEDE"}]

\* the review comments GetPRComments can return; the ID is the position
PRCommentKinds == [User : {"me", "bob"}, InReplyTo : {0, 1}]

(* ------------------------- internal/config ----------------------------- *)
DefaultConfig ==
    [GitHubToken |-> "", AIApiKey |-> "", NitpickyLevel |-> 5,
     LikedReviewers |-> {}, DislikedReviewers |-> {}]

\* Config.Validate: TRUE when it returns nil
Validate(c) ==
    /\ c.GitHubToken # ""
    /\ c.AIApiKey # ""
    /\ ~(c.NitpickyLevel < 1 \/ c.NitpickyLevel > 10)

IsLikedReviewer(c, username) == username \in c.LikedReviewers

IsDislikedReviewer(c, username) == username \in c.DislikedReviewers

GetReviewerBiasDislikedFirst(c, username) ==
    IF IsDislikedReviewer(c, username) THEN 3
    ELSE IF IsLikedReviewer(c, username) THEN -2
    ELSE 0

GetReviewerBiasSmallBoost(c, username) ==
    IF IsLikedReviewer(c, username) THEN -2
    ELSE IF IsDislikedReviewer(c, username) THEN 2
    ELSE 0

GetReviewerBias(c, username) ==
    IF IsLikedReviewer(c, username) THEN -2
    ELSE IF IsDislikedReviewer(c, username) THEN 3
    ELSE 0

(* ------------------------ internal/reviewer ---------------------------- *)
EffectiveNitpickyNoFloor(c, author) ==
    LET e == c.NitpickyLevel + GetReviewerBias(c, author)
    IN  IF e > 10 THEN 10 ELSE e

EffectiveNitpickyNoBias(c, author) ==
    LET e == c.NitpickyLevel
    IN  IF e < 1 THEN 1 ELSE IF e > 10 THEN 10 ELSE e

\* Review: "Calculate effective nitpicky level based on author"
EffectiveNitpicky(c, author) ==
    LET e == c.NitpickyLevel + GetReviewerBias(c, author)
    IN  IF e < 1 THEN 1 ELSE IF e > 10 THEN 10 ELSE e

\* Review: threshold := 90 - (effectiveNitpicky * 5)
Threshold(effective) == 90 - (effective * 5)

ConfirmsStrict(analysis, effective) ==
    /\ analysis.Confidence > Threshold(effective)
    /\ analysis.FinalVerdict = "COMMENT"

\* Review: the condition under which an analysed issue is confirmed
Confirms(analysis, effective) ==
    /\ analysis.Confidence >= Threshold(effective)
    /\ analysis.FinalVerdict = "COMMENT"

ChatRequestsRetry(ok) == IF ok THEN 1 ELSE 2

\* ai.Client.Chat: the HTTP requests one call sends, whether it succeeds or not
ChatRequests(ok) == 1

PostsReviewAlways(dry) == TRUE

\* Review: "Post the review (unless dry run)"
PostsReview(dry) == ~dry

(* ------------------------ internal/defender ---------------------------- *)
\* Defender.getMyUsername
getMyUsername == "me"

IsOtherCommentAnyThread(c) == c.User # getMyUsername

\* Defend: "Filter to comments from others (not our own replies)"
IsOtherComment(c) == c.User # getMyUsername /\ c.InReplyTo = 0

\* Defend: the condition under which a concession is generated
Concedes(analysis) ==
    analysis.RecommendedAction = "CONCEDE" \/ analysis.ConfidenceValid >= 95

\* Defend: "Post responses or show dry run"
PostsReplies(dry) == ~dry

VARIABLES
    pc,                 \* position of the run
    cmd,                \* "none", "review" or "defend"
    cfg,                \* the *config.Config the command works with
    dryRun,             \* the --dry-run flag
    err,                \* the error the command returns ("" is nil)
    author,             \* pr.GetUser().GetLogin()
    bias,               \* what r.config.GetReviewerBias(author) returned
    effectiveNitpicky,  \* Review's local
    issues,             \* len(firstPass.Issues); issue k is the k-th one
    analyses,           \* outcome of DeepAnalyze for the issues handled so far
    confirmedIssues,    \* Review's local, sequence of AnalyzedIssue
    formatted,          \* number of confirmed issues the formatting loop handled
    formatLog,          \* per handled confirmed issue: did formatComment succeed
    comments,           \* result.Comments
    stats,              \* result.Stats
    chats,              \* chat requests Review sent, by kind
    postReviewCalls     \* calls of githubClient.PostReview

rvars == <<author, bias, effectiveNitpicky, issues, analyses, confirmedIssues,
           formatted, formatLog, comments, stats, chats, postReviewCalls>>

ZeroStats == [IssuesFound |-> 0, IssuesAfterDeep |-> 0, NitpicksAdded |-> 0,
              CommentsPosted |-> 0]

ZeroChats == [first |-> 0, deep |-> 0, format |-> 0, nitpick |-> 0]

VARIABLES
    prComments,         \* what GetPRComments returned
    otherComments,      \* Defend's local: the comments it responds to
    dlog,               \* per handled comment: its analysis and what was generated
    responses,          \* result.Responses
    dstats,             \* result.Stats of Defend
    replyCalls          \* calls of githubClient.ReplyToComment, in order

dvars == <<prComments, otherComments, dlog, responses, dstats, replyCalls>>

vars == <<pc, cmd, cfg, dryRun, err, rvars, dvars>>

ZeroDefenseStats == [CommentsAnalyzed |-> 0, Defended |-> 0, Conceded |-> 0,
                     Skipped |-> 0]

Init ==
    /\ pc = "main"
    /\ cmd = "none"
    /\ cfg = DefaultConfig
    /\ dryRun = FALSE
    /\ err = ""
    /\ author = ""
    /\ bias = 0
    /\ effectiveNitpicky = 0
    /\ issues = 0
    /\ analyses = <<>>
    /\ confirmedIssues = <<>>
    /\ formatted = 0
    /\ formatLog = <<>>
    /\ comments = <<>>
    /\ stats = ZeroStats
    /\ chats = ZeroChats
    /\ postReviewCalls = <<>>
    /\ prComments = <<>>
    /\ otherComments = <<>>
    /\ dlog = <<>>
    /\ responses = <<>>
    /\ dstats = ZeroDefenseStats
    /\ replyCalls = <<>>

(* ------------------------------ main ----------------------------------- *)
\* config.Load followed by the dispatch of runReview / runDefend
LoadAndRun(command, first) ==
    /\ pc = "main"
    /\ \E file \in ConfigFiles, dry \in BOOLEAN :
         IF Validate(file)
         THEN /\ cfg' = file
              /\ cmd' = command
              /\ dryRun' = dry
              /\ pc' = first
              /\ err' = err
         ELSE /\ pc' = "done"
              /\ err' = "config"
              /\ cmd' = command
              /\ UNCHANGED <<cfg, dryRun>>
    /\ UNCHANGED <<rvars, dvars>>

runReview == LoadAndRun("review", "GetPR")

runDefend == LoadAndRun("defend", "D_GetPR")

\* a return of (nil, err)
Fail(e) ==
    /\ pc' = "done"
    /\ err' = e

(* ------------------------- Reviewer.Review ----------------------------- *)
\* ParsePRReference, GetPR and the effective nitpicky level
ReviewGetPR ==
    /\ pc = "GetPR"
    /\ \/ /\ Fail("pr")
          /\ UNCHANGED <<author, bias, effectiveNitpicky>>
       \/ /\ \E a \in Authors :
               /\ author' = a
               /\ bias' = GetReviewerBias(cfg, a)
               /\ effectiveNitpicky' = EffectiveNitpicky(cfg, a)
          /\ pc' = "GetPRFiles"
          /\ err' = err
    /\ UNCHANGED <<cmd, cfg, dryRun, issues, analyses, confirmedIssues, formatted, formatLog,
                   comments, stats, chats, postReviewCalls, dvars>>

ReviewGetPRFiles ==
    /\ pc = "GetPRFiles"
    /\ \/ Fail("files")
       \/ /\ pc' = "FirstPass"
          /\ err' = err
    /\ UNCHANGED <<cmd, cfg, dryRun, rvars, dvars>>

\* Analyzer.FirstPass: one chat request, then the JSON of the issues
ReviewFirstPass ==
    /\ pc = "FirstPass"
    /\ \/ /\ Fail("first pass failed")
          /\ chats' = [chats EXCEPT !.first = @ + ChatRequests(FALSE)]
          /\ UNCHANGED <<issues, stats>>
       \/ /\ \E n \in 0..MaxIssues :
               /\ issues' = n
               /\ stats' = [stats EXCEPT !.IssuesFound = n]
          /\ chats' = [chats EXCEPT !.first = @ + ChatRequests(TRUE)]
          /\ pc' = "DeepAnalyze"
          /\ err' = err
    /\ UNCHANGED <<cmd, cfg, dryRun, author, bias, effectiveNitpicky, analyses,
                   confirmedIssues, formatted, formatLog, comments,
                   postReviewCalls, dvars>>

ReviewDeepAnalyzeAbort ==
    /\ pc = "DeepAnalyze"
    /\ Len(analyses) < issues
    /\ \E analysis \in DeepResponses :
         /\ chats' = [chats EXCEPT !.deep = @ + ChatRequests(analysis.ok)]
         /\ analyses' = Append(analyses, analysis)
         /\ IF analysis.ok /\ Confirms(analysis, effectiveNitpicky)
            THEN confirmedIssues' = Append(confirmedIssues,
                     [Original |-> Len(analyses) + 1, Analysis |-> analysis])
            ELSE confirmedIssues' = confirmedIssues
         /\ IF analysis.ok THEN UNCHANGED <<pc, err>>
            ELSE Fail("deep analysis failed")
    /\ UNCHANGED <<cmd, cfg, dryRun, author, bias, effectiveNitpicky, issues,
                   formatted, formatLog, comments, stats, postReviewCalls, dvars>>

\* one iteration of "for i, issue := range firstPass.Issues": DeepAnalyze,
\* "continue" when it failed, else the threshold test
ReviewDeepAnalyze ==
    /\ pc = "DeepAnalyze"
    /\ Len(analyses) < issues
    /\ \E analysis \in DeepResponses :
         /\ chats' = [chats EXCEPT !.deep = @ + ChatRequests(analysis.ok)]
         /\ analyses' = Append(analyses, analysis)
         /\ IF analysis.ok /\ Confirms(analysis, effectiveNitpicky)
            THEN confirmedIssues' = Append(confirmedIssues,
                     [Original |-> Len(analyses) + 1, Analysis |-> analysis])
            ELSE confirmedIssues' = confirmedIssues
    /\ UNCHANGED <<pc, cmd, cfg, dryRun, err, author, bias, effectiveNitpicky,
                   issues, formatted, formatLog, comments, stats,
                   postReviewCalls, dvars>>

\* the loop is over: result.Stats.IssuesAfterDeep = len(confirmedIssues)
ReviewDeepDone ==
    /\ pc = "DeepAnalyze"
    /\ Len(analyses) = issues
    /\ stats' = [stats EXCEPT !.IssuesAfterDeep = Len(confirmedIssues)]
    /\ pc' = "Format"
    /\ UNCHANGED <<cmd, cfg, dryRun, err, author, bias, effectiveNitpicky, issues,
                   analyses, confirmedIssues, formatted, formatLog, comments, chats,
                   postReviewCalls, dvars>>

\* one iteration of "for _, ci := range confirmedIssues": formatComment,
\* "continue" when it failed, else the comment is appended
ReviewFormatComment ==
    /\ pc = "Format"
    /\ formatted < Len(confirmedIssues)
    /\ formatted' = formatted + 1
    /\ \E ok \in BOOLEAN :
         /\ chats' = [chats EXCEPT !.format = @ + ChatRequests(ok)]
         /\ formatLog' = Append(formatLog, ok)
         /\ IF ok
            THEN comments' = Append(comments,
                     [Line |-> confirmedIssues[formatted + 1].Original,
                      Body |-> "formatted"])
            ELSE comments' = comments
    /\ UNCHANGED <<pc, cmd, cfg, dryRun, err, author, bias, effectiveNitpicky,
                   issues, analyses, confirmedIssues, stats, postReviewCalls,
                   dvars>>

ReviewFormatDone ==
    /\ pc = "Format"
    /\ formatted = Len(confirmedIssues)
    /\ pc' = "Nitpicks"
    /\ UNCHANGED <<cmd, cfg, dryRun, err, rvars, dvars>>

RECURSIVE NitpickCommentsReversed(_)
NitpickCommentsReversed(n) ==
    IF n = 0 THEN <<>>
    ELSE <<[Line |-> n, Body |-> "nitpick"]>> \o NitpickCommentsReversed(n - 1)

RECURSIVE NitpickComments(_)
\* the review comments made of the first n nitpicks of a nitpick response
NitpickComments(n) ==
    IF n = 0 THEN <<>>
    ELSE Append(NitpickComments(n - 1), [Line |-> n, Body |-> "nitpick"])

\* "Extra nitpicks for disliked reviewers" and generateSummary
ReviewNitpicks ==
    /\ pc = "Nitpicks"
    /\ IF IsDislikedReviewer(cfg, author)
       THEN \/ /\ chats' = [chats EXCEPT !.nitpick = @ + ChatRequests(FALSE)]
               /\ UNCHANGED <<comments, stats>>
            \/ /\ chats' = [chats EXCEPT !.nitpick = @ + ChatRequests(TRUE)]
               /\ \E n \in 0..MaxNitpicks :
                    /\ comments' = comments \o NitpickComments(n)
                    /\ stats' = [stats EXCEPT !.NitpicksAdded = @ + n]
       ELSE UNCHANGED <<comments, stats, chats>>
    /\ pc' = "Post"
    /\ UNCHANGED <<cmd, cfg, dryRun, err, author, bias, effectiveNitpicky, issues,
                   analyses, confirmedIssues, formatted, formatLog,
                   postReviewCalls, dvars>>

\* Review: the event of the posted review
ReviewEvent ==
    IF Len(comments) > 0 /\ effectiveNitpicky >= 7 THEN "REQUEST_CHANGES"
    ELSE "COMMENT"

\* "Post the review (unless dry run)" and the return
ReviewPost ==
    /\ pc = "Post"
    /\ IF PostsReview(dryRun)
       THEN /\ postReviewCalls' = Append(postReviewCalls, ReviewEvent)
            /\ \/ /\ Fail("failed to post review")
                  /\ stats' = stats
               \/ /\ stats' = [stats EXCEPT !.CommentsPosted = Len(comments)]
                  /\ pc' = "done"
                  /\ err' = err
       ELSE /\ pc' = "done"
            /\ UNCHANGED <<err, stats, postReviewCalls>>
    /\ UNCHANGED <<cmd, cfg, dryRun, author, bias, effectiveNitpicky, issues, analyses,
                   confirmedIssues, formatted, formatLog, comments, chats, dvars>>

(* ------------------------- Defender.Defend ----------------------------- *)
\* ParsePRReference and GetPR
DefendGetPR ==
    /\ pc = "D_GetPR"
    /\ \/ Fail("pr")
       \/ /\ pc' = "D_GetPRComments"
          /\ err' = err
    /\ UNCHANGED <<cmd, cfg, dryRun, rvars, dvars>>

\* SelectSeq(s, IsOtherComment), in the order of s
OthersOf(s) == SelectSeq(s, IsOtherComment)

\* GetPRComments, the filter, and the early return when nothing is left
DefendGetPRComments ==
    /\ pc = "D_GetPRComments"
    /\ \/ /\ Fail("comments")
          /\ UNCHANGED <<prComments, otherComments, dstats>>
       \/ /\ \E n \in 0..MaxComments :
               \E kinds \in [1..n -> PRCommentKinds] :
                  /\ prComments' = [k \in 1..n |->
                         [ID |-> k, User |-> kinds[k].User,
                          InReplyTo |-> kinds[k].InReplyTo]]
                  /\ otherComments' = OthersOf(prComments')
          /\ err' = err
          /\ IF Len(otherComments') = 0
             THEN /\ pc' = "done"
                  /\ dstats' = dstats
             ELSE /\ pc' = "D_Analyze"
                  /\ dstats' = [dstats EXCEPT
                                  !.CommentsAnalyzed = Len(otherComments')]
    /\ UNCHANGED <<cmd, cfg, dryRun, rvars, dlog, responses, replyCalls>>

\* one iteration of "for i, comment := range otherComments":
\* analyzeComment, then generateConcession or generateDefense
DefendRespond ==
    /\ pc = "D_Analyze"
    /\ Len(dlog) < Len(otherComments)
    /\ LET comment == otherComments[Len(dlog) + 1] IN
       \E analysis \in CommentResponses, generationOk \in BOOLEAN :
         IF ~analysis.ok
         THEN /\ dstats' = [dstats EXCEPT !.Skipped = @ + 1]
              /\ dlog' = Append(dlog, [ID |-> comment.ID, Analysis |-> analysis,
                                       Generated |-> "none"])
              /\ responses' = responses
         ELSE LET kind == IF Concedes(analysis) THEN "concession" ELSE "defense"
                  counted == IF Concedes(analysis)
                             THEN [dstats EXCEPT !.Conceded = @ + 1]
                             ELSE [dstats EXCEPT !.Defended = @ + 1]
              IN  /\ dlog' = Append(dlog, [ID |-> comment.ID,
                                           Analysis |-> analysis,
                                           Generated |-> kind])
                  /\ IF generationOk
                     THEN /\ dstats' = counted
                          /\ responses' = Append(responses,
                                 [OriginalComment |-> comment.ID,
                                  Response |-> kind,
                                  Action |-> analysis.RecommendedAction])
                     ELSE /\ dstats' = [counted EXCEPT !.Skipped = @ + 1]
                          /\ responses' = responses
    /\ UNCHANGED <<pc, cmd, cfg, dryRun, err, rvars, prComments, otherComments,
                   replyCalls>>

DefendRespondDone ==
    /\ pc = "D_Analyze"
    /\ Len(dlog) = Len(otherComments)
    /\ pc' = "D_Post"
    /\ UNCHANGED <<cmd, cfg, dryRun, err, rvars, dvars>>

DefendReplyAbort ==
    /\ pc = "D_Post"
    /\ PostsReplies(dryRun)
    /\ Len(replyCalls) < Len(responses)
    /\ \E posted \in BOOLEAN :
         /\ replyCalls' = Append(replyCalls,
                [commentID |-> responses[Len(replyCalls) + 1].OriginalComment,
                 posted |-> posted])
         /\ IF posted THEN UNCHANGED <<pc, err>>
            ELSE Fail("failed to reply to comment")
    /\ UNCHANGED <<cmd, cfg, dryRun, rvars, prComments, otherComments, dlog,
                   responses, dstats>>

\* one iteration of "for i, r := range result.Responses": ReplyToComment,
\* a failure is only printed
DefendReply ==
    /\ pc = "D_Post"
    /\ PostsReplies(dryRun)
    /\ Len(replyCalls) < Len(responses)
    /\ \E posted \in BOOLEAN :
         replyCalls' = Append(replyCalls,
             [commentID |-> responses[Len(replyCalls) + 1].OriginalComment,
              posted |-> posted])
    /\ UNCHANGED <<pc, cmd, cfg, dryRun, err, rvars, prComments, otherComments,
                   dlog, responses, dstats>>

\* the summary and "return result, nil"
DefendReturn ==
    /\ pc = "D_Post"
    /\ ~PostsReplies(dryRun) \/ Len(replyCalls) = Len(responses)
    /\ pc' = "done"
    /\ UNCHANGED <<cmd, cfg, dryRun, err, rvars, dvars>>

Next ==
    \/ runReview
    \/ runDefend
    \/ ReviewGetPR
    \/ ReviewGetPRFiles
    \/ ReviewFirstPass
    \/ ReviewDeepAnalyze
    \/ ReviewDeepDone
    \/ ReviewFormatComment
    \/ ReviewFormatDone
    \/ ReviewNitpicks
    \/ ReviewPost
    \/ DefendGetPR
    \/ DefendGetPRComments
    \/ DefendRespond
    \/ DefendRespondDone
    \/ DefendReply
    \/ DefendReturn

Spec == Init /\ [][Next]_vars

(* ============================ properties =============================== *)
\* the effective nitpicky level has been computed: GetPR succeeded in Review
Reviewing == cmd = "review" /\ author # ""

\* issue k is among the confirmed issues
IsConfirmed(k) ==
    \E j \in 1..Len(confirmedIssues) : confirmedIssues[j].Original = k

\* a comment of result.Comments was produced from issue k
HasComment(k) ==
    \E j \in 1..Len(comments) :
        comments[j].Body = "formatted" /\ comments[j].Line = k

\* C1: an analysed issue is among the confirmed issues exactly when its deep
\* analysis succeeded, its verdict is "COMMENT" and its confidence is at least
\* 90 - 5 * (configured level + author's bias, clamped to 1..10); an issue that
\* is not confirmed has no comment.
C1_ConfirmedIff ==
    \A k \in 1..Len(analyses) :
        LET raw == cfg.NitpickyLevel + GetReviewerBias(cfg, author)
            clamped == IF raw < 1 THEN 1 ELSE IF raw > 10 THEN 10 ELSE raw
        IN  /\ IsConfirmed(k) <=>
                  /\ analyses[k].ok
                  /\ analyses[k].FinalVerdict = "COMMENT"
                  /\ analyses[k].Confidence >= 90 - 5 * clamped
            /\ HasComment(k) => IsConfirmed(k)

C1_Witness ==
    /\ pc = "done" /\ cmd = "review" /\ err = ""
    /\ \E k \in 1..Len(analyses) : IsConfirmed(k) /\ HasComment(k)
    /\ \E k \in 1..Len(analyses) :
          /\ analyses[k].ok /\ analyses[k].FinalVerdict = "COMMENT"
          /\ ~IsConfirmed(k)

\* C2: every comment produced from a first-pass issue has a deep-analysis
\* confidence of at least 80.
C2_CommentsAtLeast80 ==
    \A k \in 1..Len(analyses) : HasComment(k) => analyses[k].Confidence >= 80

\* C3: once Review has computed it, the effective nitpicky level lies in 1..10
\* and the acceptance threshold in 40..85: 85 at level 1 and 40 at level 10.
C3_EffectiveInRange ==
    Reviewing =>
        /\ effectiveNitpicky \in 1..10
        /\ Threshold(effectiveNitpicky) \in 40..85
        /\ effectiveNitpicky = 1 => Threshold(effectiveNitpicky) = 85
        /\ effectiveNitpicky = 10 => Threshold(effectiveNitpicky) = 40

C3_Witness ==
    /\ Reviewing
    /\ cfg.NitpickyLevel = 1 /\ bias = -2
    /\ effectiveNitpicky = 1
    /\ Len(analyses) > 0

\* C4 (as stated): for a disliked author the effective nitpicky level is the
\* configured level plus 3.
C4_DislikedPlus3 ==
    Reviewing /\ IsDislikedReviewer(cfg, author) =>
        effectiveNitpicky = cfg.NitpickyLevel + 3

\* C4 (amended): for an author who is disliked and not also liked the
\* effective nitpicky level is the configured level plus 3, capped at 10.
C4_DislikedPlus3Capped ==
    Reviewing /\ IsDislikedReviewer(cfg, author) /\ ~IsLikedReviewer(cfg, author) =>
        effectiveNitpicky =
            IF cfg.NitpickyLevel + 3 > 10 THEN 10 ELSE cfg.NitpickyLevel + 3

C4_Witness ==
    /\ Reviewing
    /\ IsDislikedReviewer(cfg, author) /\ ~IsLikedReviewer(cfg, author)
    /\ cfg.NitpickyLevel = 9
    /\ effectiveNitpicky = 10

\* the threshold of an author with bias 0 under the configuration in use
NeutralThreshold == 90 - 5 * cfg.NitpickyLevel

\* C5 (as stated): for a liked author the effective nitpicky level is strictly
\* lower than the configured level and the threshold strictly higher than a
\* neutral author's.
C5_LikedStrictlyLower ==
    Reviewing /\ IsLikedReviewer(cfg, author) =>
        /\ effectiveNitpicky < cfg.NitpickyLevel
        /\ 90 - 5 * effectiveNitpicky > NeutralThreshold

\* C5 (amended): for a liked author the effective nitpicky level is never
\* higher than the configured level and the threshold never lower than a
\* neutral author's; both comparisons are strict when the configured level
\* is at least 2, and at level 1 both authors get level 1 and threshold 85.
C5_LikedLowerUnlessLevel1 ==
    Reviewing /\ IsLikedReviewer(cfg, author) =>
        /\ effectiveNitpicky <= cfg.NitpickyLevel
        /\ 90 - 5 * effectiveNitpicky >= NeutralThreshold
        /\ cfg.NitpickyLevel >= 2 =>
              /\ effectiveNitpicky < cfg.NitpickyLevel
              /\ 90 - 5 * effectiveNitpicky > NeutralThreshold
        /\ cfg.NitpickyLevel = 1 =>
              /\ effectiveNitpicky = 1
              /\ 90 - 5 * effectiveNitpicky = 85
              /\ NeutralThreshold = 85

C5_Witness ==
    /\ Reviewing
    /\ IsLikedReviewer(cfg, author)
    /\ cfg.NitpickyLevel = 5
    /\ effectiveNitpicky = 3

\* C6 (as stated): the bias is in -2..3: -2 for a liked user, 3 for a
\* disliked user, 0 for a user on neither list.
C6_BiasByList ==
    Reviewing =>
        /\ bias \in -2..3
        /\ IsLikedReviewer(cfg, author) => bias = -2
        /\ IsDislikedReviewer(cfg, author) => bias = 3
        /\ ~IsLikedReviewer(cfg, author) /\ ~IsDislikedReviewer(cfg, author)
              => bias = 0

\* C6 (amended): the bias is in -2..3: -2 for a liked user, 3 for a user who
\* is disliked and not liked, 0 for a user on neither list.
C6_BiasLikedFirst ==
    Reviewing =>
        /\ bias \in -2..3
        /\ IsLikedReviewer(cfg, author) => bias = -2
        /\ IsDislikedReviewer(cfg, author) /\ ~IsLikedReviewer(cfg, author)
              => bias = 3
        /\ ~IsLikedReviewer(cfg, author) /\ ~IsDislikedReviewer(cfg, author)
              => bias = 0

C6_Witness ==
    /\ Reviewing
    /\ IsLikedReviewer(cfg, author) /\ IsDislikedReviewer(cfg, author)
    /\ bias = -2

\* C7: a nitpick request is sent, and nitpicks are added, only for an author
\* whose bias was 3.
C7_NitpicksOnlyForBias3 ==
    Reviewing /\ bias # 3 => chats.nitpick = 0 /\ stats.NitpicksAdded = 0

\* C8: with dryRun nothing is posted: no PostReview call, CommentsPosted is 0,
\* and no ReplyToComment call.
C8_DryRunPostsNothing ==
    dryRun =>
        /\ postReviewCalls = <<>>
        /\ stats.CommentsPosted = 0
        /\ replyCalls = <<>>

C8_Witness ==
    /\ dryRun
    /\ pc = "done" /\ cmd = "review" /\ err = ""
    /\ Len(comments) > 0

\* C9: a concession is generated only for a comment analysed as 100% valid,
\* and every analysed comment below 100 gets a defense.
C9_ConcedeOnlyAt100 ==
    \A k \in 1..Len(dlog) :
        dlog[k].Analysis.ok =>
            /\ dlog[k].Generated = "concession"
                  => dlog[k].Analysis.ConfidenceValid = 100
            /\ dlog[k].Analysis.ConfidenceValid < 100
                  => dlog[k].Generated = "defense"

\* C10: when Defend returns a result, defended + conceded + skipped equals
\* the number of comments analysed.
C10_StatsAddUp ==
    pc = "done" /\ cmd = "defend" /\ err = "" =>
        dstats.Defended + dstats.Conceded + dstats.Skipped
            = dstats.CommentsAnalyzed

\* the comment of prComments that response j answers
AnsweredComment(j) == prComments[responses[j].OriginalComment]

PassedFirstPass == cmd = "review" /\ chats.first > 0 /\ err # "first pass failed"

\* C12: a failed deep analysis or a failed comment formatting produces no
\* comment for its issue and does not stop Review: past the two loops every
\* issue has been analysed and every confirmed issue formatted, and the only
\* error Review can then return is that of PostReview.
C12_FailuresSkipped ==
    /\ \A k \in 1..Len(analyses) : ~analyses[k].ok => ~HasComment(k)
    /\ \A j \in 1..Len(formatLog) :
          ~formatLog[j] => ~HasComment(confirmedIssues[j].Original)
    /\ PassedFirstPass /\ pc \in {"Nitpicks", "Post", "done"} =>
          /\ Len(analyses) = issues
          /\ Len(formatLog) = Len(confirmedIssues)
    /\ PassedFirstPass /\ pc = "done" =>
          /\ err \in {"", "failed to post review"}
          /\ dryRun => err = ""

C12_Witness ==
    /\ pc = "done" /\ cmd = "review" /\ err = ""
    /\ Len(analyses) = 2
    /\ ~analyses[1].ok
    /\ HasComment(2)

\* C13: no chat request is retried: Review sends one first-pass request, one
\* deep-analysis request per issue, one formatting request per confirmed
\* issue, and one nitpick request exactly when the author is disliked.
C13_NoRetry ==
    PassedFirstPass =>
        /\ chats.first = 1
        /\ chats.deep = Len(analyses)
        /\ chats.format = Len(formatLog)
        /\ pc \in {"Post", "done"} =>
              /\ chats.deep = issues
              /\ chats.format = Len(confirmedIssues)
              /\ chats.nitpick = IF author \in cfg.DislikedReviewers THEN 1 ELSE 0

C13_Witness ==
    /\ pc = "done" /\ cmd = "review" /\ err = ""
    /\ issues = 2
    /\ ~analyses[1].ok
    /\ formatLog = <<FALSE>>
    /\ chats = [first |-> 1, deep |-> 2, format |-> 1, nitpick |-> 1]

\* C14: in result.Comments the comments of confirmed issues are in the order
\* of their issues in the first-pass result, and every nitpick comment comes
\* after them, in the order of the nitpick response.
C14_CommentsInOrder ==
    \A i, j \in 1..Len(comments) :
        i < j =>
            /\ comments[i].Body = comments[j].Body
                  => comments[i].Line < comments[j].Line
            /\ ~(comments[i].Body = "nitpick" /\ comments[j].Body = "formatted")

C14_Witness ==
    /\ pc = "done" /\ cmd = "review" /\ err = ""
    /\ Len(comments) = 4
    /\ comments[2].Body = "formatted"
    /\ comments[3].Body = "nitpick"

\* C15: when Defend posts (dryRun is false) it calls ReplyToComment once per
\* response, in the order of the responses, whether or not a call fails, and
\* returns without an error.
C15_RepliesAllAttempted ==
    /\ Len(replyCalls) <= Len(responses)
    /\ \A k \in 1..Len(replyCalls) :
          replyCalls[k].commentID = responses[k].OriginalComment
    /\ cmd = "defend" /\ pc = "done" /\ Len(otherComments) > 0 =>
          /\ err = ""
          /\ ~dryRun => Len(replyCalls) = Len(responses)

C15_Witness ==
    /\ pc = "done" /\ cmd = "defend" /\ err = "" /\ ~dryRun
    /\ Len(replyCalls) = 2
    /\ ~replyCalls[1].posted
    /\ replyCalls[2].posted

====
